---- MODULE Spec2Model ----
(***************************************************************************)
(* Export pipeline of leed_pdf_viewer (src/lib/utils/exportHandlers.ts):   *)
(* getPdfBytesAndName, buildAnnotatedPdfExporter, compressPdfBytes,        *)
(* exportCurrentPageAsPng, exportAllPagesAsPngZip, GestureTracker and     *)
(* PanInertia, with the components PngExport.svelte (export card, gesture  *)
(* hint) and DropzonePage.svelte.                                          *)
(*                                                                         *)
(* Every async function is a small state machine: one action per stretch   *)
(* of code between two awaits (JavaScript runs such a stretch atomically). *)
(* Strings are sequences of one-character strings.                         *)
(***************************************************************************)
EXTENDS Integers, Sequences, FiniteSets, TLC

\* ------------------------------------------------------------------ bounds
MaxPages == 5
MaxSuffixes == 2
MaxConcurrentPages == 2
MaxExportPages == 2
LongExportPages == 18
MaxSamples == 2
MaxShows == 3
MaxPointers == 3

\* ----------------------------------------------------------------- strings
PDF_EXT == <<".", "p", "d", "f">>
PNG_EXT == <<".", "p", "n", "g">>
DOCUMENT_PDF == <<"d", "o", "c", "u", "m", "e", "n", "t">> \o PDF_EXT

\* String.prototype.toLowerCase, on the letters the model's names use.
LowerChar(ch) ==
    CASE ch = "P" -> "p"
      [] ch = "D" -> "d"
      [] ch = "F" -> "f"
      [] ch = "R" -> "r"
      [] OTHER -> ch

toLowerCase(s) == [i \in 1..Len(s) |-> LowerChar(s[i])]

\* String.prototype.endsWith
endsWith(s, suffix) ==
    /\ Len(s) >= Len(suffix)
    /\ SubSeq(s, Len(s) - Len(suffix) + 1, Len(s)) = suffix

\* /\.pdf$/i.test(s)
MatchesPdfSuffix(s) == endsWith(toLowerCase(s), PDF_EXT)

StripPdfSuffix_sensitive(s) ==
    IF endsWith(s, PDF_EXT) THEN SubSeq(s, 1, Len(s) - 4) ELSE s

\* s.replace(/\.pdf$/i, ''): the first (and, anchored at the end, only) match
\* is removed, once.
StripPdfSuffix(s) ==
    IF MatchesPdfSuffix(s) THEN SubSeq(s, 1, Len(s) - 4) ELSE s

\* pathname.split('/').pop(): what follows the last '/', the whole string
\* when it holds none.
RECURSIVE LastSegment(_)
LastSegment(s) ==
    IF s = <<>> THEN <<>>
    ELSE IF s[Len(s)] = "/" THEN <<>>
    ELSE LastSegment(SubSeq(s, 1, Len(s) - 1)) \o <<s[Len(s)]>>

\* Number-to-string conversion of a template literal (${page}).
DigitChar(d) ==
    CASE d = 0 -> "0" [] d = 1 -> "1" [] d = 2 -> "2" [] d = 3 -> "3"
      [] d = 4 -> "4" [] d = 5 -> "5" [] d = 6 -> "6" [] d = 7 -> "7"
      [] d = 8 -> "8" [] OTHER -> "9"

RECURSIVE NumberToString(_)
NumberToString(n) ==
    IF n < 10 THEN <<DigitChar(n)>>
    ELSE NumberToString(n \div 10) \o <<DigitChar(n % 10)>>

\* Math.round on the non-negative rational num/den (halves round up).
MathRound(num, den) == (2 * num + den) \div (2 * den)

\* ------------------------------------------------------------------- state
VARIABLES
    zc,     \* exportAllPagesAsPngZip: the locals of each call in flight
    sp,     \* exportCurrentPageAsPng: the locals of the call
    cp,     \* compressPdfBytes: the locals of the call
    rs,     \* getPdfBytesAndName: the locals of the call
    mg,     \* buildAnnotatedPdfExporter: the locals of the call
    px,     \* PngExport.svelte: the component's state and its doExport runs
    pn,     \* PanInertia: the fields of one instance
    dz,     \* DropzonePage.svelte: the component's state and its upload run
    gh,     \* the touch gesture hint (PngExport.svelte, second script)
    gt      \* GestureTracker: the fields of one instance

\* The state of the components.
ui == <<px, pn, dz, gh, gt>>

vars == <<zc, sp, cp, rs, mg, ui>>

\* Calls of exportAllPagesAsPngZip that may be in flight; a caller that awaits
\* each export before starting the next has only the first.
CallIds == {1, 2}
SoleCall == {1}

\* Base names a caller passes ("Base filename without extension").
BaseNames == {<<"r">>, <<"R", "e", "p", "o", "r", "t">>}

\* ------------------------------------------- collaborators (fixed contracts)
\* pdfViewer.getMergedCanvasForPage(page): the page's canvas, or null.
NullCanvas == [page |-> 0]
CanvasOf(page) == [page |-> page]
MergedCanvasAnswers(page) == {NullCanvas, CanvasOf(page)}

\* canvas.toBlob(cb, 'image/png') hands cb a blob, or null when it refuses.
NullBlob == [png |-> 0]
BlobOf(canvas) == [png |-> canvas.page]
ToBlobAnswers(canvas) == {NullBlob, BlobOf(canvas)}

\* PDFExporter.exportFile(data, filename, mimeType): true iff the user
\* completed the save, false when the save dialog was dismissed.
FileSinkAnswers == BOOLEAN

\* ------------------------------------------------- exportAllPagesAsPngZip
ZipIdle ==
    [pc |-> "idle", totalPages |-> 0, baseName |-> <<>>, hasProgress |-> FALSE,
     page |-> 0, canvas |-> NullCanvas, blob |-> NullBlob,
     zip |-> {}, filesAdded |-> 0,
     requested |-> <<>>, rendered |-> {}, encodeFailed |-> {}, handled |-> <<>>,
     progress |-> <<>>, reportedPages |-> <<>>, generated |-> FALSE,
     sinkLog |-> <<>>, sinkAnswers |-> <<>>, result |-> FALSE, error |-> "none"]

\* `page${page}.png`
ZipEntryName_zeroBased(page) ==
    <<"p", "a", "g", "e">> \o NumberToString(page - 1) \o PNG_EXT

ZipEntryName(page) ==
    <<"p", "a", "g", "e">> \o NumberToString(page) \o PNG_EXT

\* `${baseName}_pages.zip`
ZipFileName(baseName) ==
    baseName \o <<"_", "p", "a", "g", "e", "s", ".", "z", "i", "p">>

\* zip.file(name, data): JSZip keeps one entry per name, the last one added.
ZipFile(zip, name, data) ==
    {e \in zip : e.name # name} \cup {[name |-> name, data |-> data]}

\* if (!canvas)
CanvasMissing_never(canvas) == FALSE

CanvasMissing(canvas) == canvas = NullCanvas

\* if (filesAdded === 0)
ArchiveIsEmpty_never(filesAdded) == FALSE

ArchiveIsEmpty(filesAdded) == filesAdded = 0

\* Math.round((page / totalPages) * 80)
LoopProgress_percent(page, totalPages) == MathRound(page * 100, totalPages)

LoopProgress(page, totalPages) == MathRound(page * 80, totalPages)

\* if (onProgress) onProgress(percent)
Report(r, percent) ==
    IF r.hasProgress THEN [r EXCEPT !.progress = Append(@, percent)] ELSE r

\* if (saved && onProgress) onProgress(100)
ReportSaved_always(r, saved) == Report(r, 100)

ReportSaved(r, saved) == IF saved THEN Report(r, 100) ELSE r

\* The loop test `page <= totalPages` and what follows it up to the next await:
\* the request for the page's canvas, or the code after the loop up to
\* zip.generateAsync.
ZipLoopTest(r) ==
    IF r.page <= r.totalPages
    THEN [r EXCEPT !.pc = "canvas", !.requested = Append(@, r.page)]
    ELSE IF ArchiveIsEmpty(r.filesAdded)
         THEN [r EXCEPT !.pc = "threw", !.error = "EmptyArchive"]
         ELSE [r EXCEPT !.pc = "generate"]

\* The call: runs to `await import('jszip')`.
ZipCall(c, totalPages, baseName, hasProgress) ==
    /\ zc[c].pc = "idle"
    /\ zc' = [zc EXCEPT ![c] = [ZipIdle EXCEPT !.pc = "import",
                                              !.totalPages = totalPages,
                                              !.baseName = baseName,
                                              !.hasProgress = hasProgress]]

\* The import resolved: new JSZip(), filesAdded = 0, page = 1, first loop test.
ZipImported(c) ==
    /\ zc[c].pc = "import"
    /\ zc' = [zc EXCEPT ![c] =
                ZipLoopTest([@ EXCEPT !.zip = {}, !.filesAdded = 0, !.page = 1])]

\* getMergedCanvasForPage(page) resolved: skip the page (continue) when there
\* is no canvas, else start canvasToPngBlob.
ZipCanvasResolved_prefetch(c, canvas) ==
    /\ zc[c].pc = "canvas"
    /\ LET r == [zc[c] EXCEPT !.rendered =
                    IF canvas = NullCanvas THEN @ ELSE @ \cup {zc[c].page}]
       IN zc' = [zc EXCEPT ![c] =
                   IF CanvasMissing(canvas)
                   THEN ZipLoopTest([r EXCEPT !.handled = Append(@, r.page),
                                              !.page = @ + 1])
                   ELSE [r EXCEPT !.pc = "toBlob", !.canvas = canvas,
                                  !.requested = Append(@, r.page + 1)]]

ZipCanvasResolved(c, canvas) ==
    /\ zc[c].pc = "canvas"
    /\ LET r == [zc[c] EXCEPT !.rendered =
                    IF canvas = NullCanvas THEN @ ELSE @ \cup {zc[c].page}]
       IN zc' = [zc EXCEPT ![c] =
                   IF CanvasMissing(canvas)
                   THEN ZipLoopTest([r EXCEPT !.handled = Append(@, r.page),
                                              !.page = @ + 1])
                   ELSE [r EXCEPT !.pc = "toBlob", !.canvas = canvas]]

\* canvas.toBlob called back: resolve with the blob, or reject.
ZipBlobSettled_skip(c, b) ==
    /\ zc[c].pc = "toBlob"
    /\ LET r == [zc[c] EXCEPT !.encodeFailed =
                    IF b = NullBlob THEN @ \cup {zc[c].page} ELSE @]
       IN zc' = [zc EXCEPT ![c] =
                   IF b # NullBlob
                   THEN [r EXCEPT !.pc = "arrayBuffer", !.blob = b]
                   ELSE ZipLoopTest([r EXCEPT !.handled = Append(@, r.page),
                                              !.page = @ + 1])]

ZipBlobSettled(c, b) ==
    /\ zc[c].pc = "toBlob"
    /\ LET r == [zc[c] EXCEPT !.encodeFailed =
                    IF b = NullBlob THEN @ \cup {zc[c].page} ELSE @]
       IN zc' = [zc EXCEPT ![c] =
                   IF b # NullBlob
                   THEN [r EXCEPT !.pc = "arrayBuffer", !.blob = b]
                   ELSE [r EXCEPT !.pc = "threw", !.error = "CanvasEncodeFailed"]]

\* blob.arrayBuffer() resolved: add the entry, count it, report, next page.
ZipBytesRead_sharedZip(c) ==
    /\ zc[c].pc = "arrayBuffer"
    /\ LET r == zc[c]
           added == [r EXCEPT !.zip = ZipFile(@, ZipEntryName(r.page), r.blob),
                              !.filesAdded = @ + 1]
           told == Report(added, LoopProgress(r.page, r.totalPages))
           noted == IF told.progress # added.progress
                    THEN [told EXCEPT !.reportedPages = Append(@, r.page)]
                    ELSE told
       IN zc' = [d \in CallIds |->
                   IF d = c
                   THEN ZipLoopTest([noted EXCEPT !.handled = Append(@, r.page),
                                                  !.page = @ + 1])
                   ELSE IF zc[d].pc \in {"idle", "import"} THEN zc[d]
                   ELSE [zc[d] EXCEPT !.zip = ZipFile(@, ZipEntryName(r.page), r.blob)]]

ZipBytesRead(c) ==
    /\ zc[c].pc = "arrayBuffer"
    /\ LET r == zc[c]
           added == [r EXCEPT !.zip = ZipFile(@, ZipEntryName(r.page), r.blob),
                              !.filesAdded = @ + 1]
           told == Report(added, LoopProgress(r.page, r.totalPages))
           noted == IF told.progress # added.progress
                    THEN [told EXCEPT !.reportedPages = Append(@, r.page)]
                    ELSE told
       IN zc' = [zc EXCEPT ![c] =
                   ZipLoopTest([noted EXCEPT !.handled = Append(@, r.page),
                                             !.page = @ + 1])]

\* zip.generateAsync resolved: report 95 and hand the archive to the file sink.
ZipGenerated_unreported(c) ==
    /\ zc[c].pc = "generate"
    /\ LET told == zc[c]
       IN zc' = [zc EXCEPT ![c] =
                   [told EXCEPT !.pc = "sink", !.generated = TRUE,
                                !.sinkLog = Append(@,
                                    [data |-> told.zip,
                                     filename |-> ZipFileName(told.baseName),
                                     mime |-> "application/zip"])]]

ZipGenerated(c) ==
    /\ zc[c].pc = "generate"
    /\ LET told == Report(zc[c], 95)
       IN zc' = [zc EXCEPT ![c] =
                   [told EXCEPT !.pc = "sink", !.generated = TRUE,
                                !.sinkLog = Append(@,
                                    [data |-> told.zip,
                                     filename |-> ZipFileName(told.baseName),
                                     mime |-> "application/zip"])]]

\* PDFExporter.exportFile resolved: report 100 when saved, return saved.
ZipSinkResolved(c, saved) ==
    /\ zc[c].pc = "sink"
    /\ zc' = [zc EXCEPT ![c] =
                [ReportSaved(@, saved) EXCEPT !.pc = "returned",
                                              !.sinkAnswers = Append(@, saved),
                                              !.result = saved]]

\* The caller has taken the result (or the error); the call's locals are gone.
ZipDone(c) ==
    /\ zc[c].pc \in {"returned", "threw"}
    /\ zc' = [zc EXCEPT ![c] = ZipIdle]

\* ------------------------------------------------- exportCurrentPageAsPng
PageIdle ==
    [pc |-> "idle", currentPage |-> 0, baseName |-> <<>>,
     canvas |-> NullCanvas, blob |-> NullBlob, requested |-> <<>>, rendered |-> {},
     sinkLog |-> <<>>, sinkAnswers |-> <<>>, result |-> FALSE, error |-> "none"]

\* `${baseName}_page${currentPage}.png`
PageFileName(baseName, currentPage) ==
    baseName \o <<"_", "p", "a", "g", "e">> \o NumberToString(currentPage) \o PNG_EXT

\* The call: runs to `await pdfViewer.getMergedCanvasForPage(currentPage)`.
PageCall(currentPage, baseName) ==
    /\ sp.pc = "idle"
    /\ sp' = [PageIdle EXCEPT !.pc = "canvas", !.currentPage = currentPage,
                              !.baseName = baseName,
                              !.requested = <<currentPage>>]

\* The canvas request resolved: throw when there is none, else canvasToPngBlob.
PageCanvasResolved(canvas) ==
    /\ sp.pc = "canvas"
    /\ LET r == [sp EXCEPT !.rendered =
                    IF canvas = NullCanvas THEN @ ELSE @ \cup {sp.currentPage}]
       IN sp' = IF CanvasMissing(canvas)
                THEN [r EXCEPT !.pc = "threw", !.error = "PageRenderFailed"]
                ELSE [r EXCEPT !.pc = "toBlob", !.canvas = canvas]

\* canvas.toBlob called back: on a blob, hand it to the file sink; else reject.
PageBlobSettled(b) ==
    /\ sp.pc = "toBlob"
    /\ sp' = IF b # NullBlob
             THEN [sp EXCEPT !.pc = "sink", !.blob = b,
                             !.sinkLog = Append(@,
                                 [data |-> b,
                                  filename |-> PageFileName(sp.baseName, sp.currentPage),
                                  mime |-> "image/png"])]
             ELSE [sp EXCEPT !.pc = "threw", !.error = "CanvasEncodeFailed"]

\* PDFExporter.exportFile resolved: its boolean is the call's result.
PageSinkResolved_true(saved) ==
    /\ sp.pc = "sink"
    /\ sp' = [sp EXCEPT !.pc = "returned", !.sinkAnswers = Append(@, saved),
                        !.result = TRUE]

PageSinkResolved(saved) ==
    /\ sp.pc = "sink"
    /\ sp' = [sp EXCEPT !.pc = "returned", !.sinkAnswers = Append(@, saved),
                        !.result = saved]

PageDone ==
    /\ sp.pc \in {"returned", "threw"}
    /\ sp' = PageIdle

\* ------------------------------------------------------- compressPdfBytes
\* PDF byte buffers, by where they come from.  loadable: PDFDocument.load
\* (pdf-lib, ignoreEncryption) accepts the bytes.
InputBuffers == {[origin |-> "input", loadable |-> l] : l \in BOOLEAN}
NoBuffer == [origin |-> "none", loadable |-> FALSE]
Rejected == [origin |-> "rejected", loadable |-> FALSE]

\* quality: 1..100, default 75.
DefaultQuality == 75
Qualities == {1, DefaultQuality, 100}

\* invoke('compress_pdf', {content, quality}): the host routine's recompressed
\* PDF, or a rejection.
NativeAnswers(bytes, quality) ==
    {Rejected, [origin |-> "native", loadable |-> TRUE]}

\* doc.save({useObjectStreams: true}): the re-saved PDF, or a rejection.
SaveAnswers(bytes) ==
    {Rejected, [origin |-> "library", loadable |-> TRUE]}

CompressIdle ==
    [pc |-> "idle", isTauri |-> FALSE, pdfBytes |-> NoBuffer, quality |-> 0,
     tiers |-> <<>>, failed |-> {}, warnings |-> 0, result |-> NoBuffer]

\* catch (error) { ...; return pdfBytes; }
Passthrough_empty(r) ==
    [r EXCEPT !.pc = "returned", !.tiers = Append(@, "passthrough"),
              !.warnings = @ + 1, !.result = NoBuffer]

Passthrough(r) ==
    [r EXCEPT !.pc = "returned", !.tiers = Append(@, "passthrough"),
              !.warnings = @ + 1, !.result = r.pdfBytes]

\* The fallback: `await PDFDocument.load(pdfBytes, ...)` is started.
StartLibraryTier(r) == [r EXCEPT !.pc = "load", !.tiers = Append(@, "library")]

\* The call: in Tauri runs to `await invoke(...)`, else to the fallback's load.
CompressCall(isTauri, pdfBytes, quality) ==
    /\ cp.pc = "idle"
    /\ LET r == [CompressIdle EXCEPT !.isTauri = isTauri, !.pdfBytes = pdfBytes,
                                     !.quality = quality]
       IN cp' = IF isTauri
                THEN [r EXCEPT !.pc = "invoke", !.tiers = Append(@, "native")]
                ELSE StartLibraryTier(r)

\* invoke settled: return the host's bytes, or warn and fall back.
CompressInvokeSettled_rethrow(answer) ==
    /\ cp.pc = "invoke"
    /\ cp' = IF answer = Rejected
             THEN [cp EXCEPT !.pc = "threw", !.failed = @ \cup {"native"}]
             ELSE [cp EXCEPT !.pc = "returned", !.result = answer]

CompressInvokeSettled_both(answer) ==
    /\ cp.pc = "invoke"
    /\ cp' = StartLibraryTier([cp EXCEPT !.failed =
                    IF answer = Rejected THEN @ \cup {"native"} ELSE @])

CompressInvokeSettled(answer) ==
    /\ cp.pc = "invoke"
    /\ LET r == [cp EXCEPT !.failed =
                    IF answer = Rejected THEN @ \cup {"native"} ELSE @]
       IN cp' = IF answer = Rejected
                THEN StartLibraryTier([r EXCEPT !.warnings = @ + 1])
                ELSE [r EXCEPT !.pc = "returned", !.result = answer]

\* PDFDocument.load settled: save the document, or warn and return the input.
CompressLoadSettled ==
    /\ cp.pc = "load"
    /\ cp' = IF cp.pdfBytes.loadable
             THEN [cp EXCEPT !.pc = "save"]
             ELSE Passthrough([cp EXCEPT !.failed = @ \cup {"library"}])

\* doc.save settled: return the saved bytes, or warn and return the input.
CompressSaveSettled(answer) ==
    /\ cp.pc = "save"
    /\ cp' = IF answer = Rejected
             THEN Passthrough([cp EXCEPT !.failed = @ \cup {"library"}])
             ELSE [cp EXCEPT !.pc = "returned", !.result = answer]

CompressDone ==
    /\ cp.pc \in {"returned", "threw"}
    /\ cp' = CompressIdle

\* ----------------------------------------------------- getPdfBytesAndName
Stems == {<<>>, <<"r">>}
Suffixes == {PDF_EXT, <<".", "P", "D", "F">>, PNG_EXT}

\* Up to n extensions in a row.
RECURSIVE SuffixRuns(_)
SuffixRuns(n) ==
    IF n = 0 THEN {<<>>}
    ELSE LET shorter == SuffixRuns(n - 1)
         IN shorter \cup {run \o x : run \in shorter, x \in Suffixes}

\* File names, last URL path segments and results of a caller's extractor.
FileNames == {stem \o run : stem \in Stems, run \in SuffixRuns(MaxSuffixes)}

Files == {[kind |-> "file", name |-> n, parseable |-> TRUE, pathname |-> <<>>] :
            n \in FileNames}

\* URL strings: parseable says whether `new URL(url)` accepts the string,
\* pathname is what it then gives as .pathname.
Directories == {<<"/">>, <<"/", "y", "/">>}
Urls ==
    {[kind |-> "url", name |-> <<>>, parseable |-> TRUE, pathname |-> d \o n] :
        d \in Directories, n \in FileNames}
    \cup {[kind |-> "url", name |-> <<>>, parseable |-> FALSE, pathname |-> <<>>]}

\* function defaultFilenameExtractor(url)
defaultFilenameExtractor_sensitive(url) ==
    IF ~url.parseable THEN DOCUMENT_PDF
    ELSE LET popped == LastSegment(url.pathname)
             filename == IF popped = <<>> THEN DOCUMENT_PDF ELSE popped
         IN IF endsWith(filename, PDF_EXT)
            THEN filename
            ELSE filename \o PDF_EXT

defaultFilenameExtractor(url) ==
    IF ~url.parseable THEN DOCUMENT_PDF
    ELSE LET popped == LastSegment(url.pathname)
             filename == IF popped = <<>> THEN DOCUMENT_PDF ELSE popped
         IN IF endsWith(toLowerCase(filename), PDF_EXT)
            THEN filename
            ELSE filename \o PDF_EXT

\* fetch(url): a response with ok true or false, or a rejection.
FetchAnswers == {"ok", "notOk", "rejected"}

ResolveIdle ==
    [pc |-> "idle", currentFile |-> [kind |-> "none", name |-> <<>>,
                                      parseable |-> FALSE, pathname |-> <<>>],
     customExtractor |-> FALSE, fetches |-> 0, response |-> "none", bodyReads |-> 0,
     extractorCalls |-> 0, extracted |-> <<>>, hasBytes |-> FALSE,
     originalName |-> <<>>, error |-> "none"]

\* The call: a string is fetched, a File's bytes are read.
ResolveCall(currentFile, customExtractor) ==
    /\ rs.pc = "idle"
    /\ LET r == [ResolveIdle EXCEPT !.currentFile = currentFile,
                                    !.customExtractor = customExtractor]
       IN rs' = IF currentFile.kind = "url"
                THEN [r EXCEPT !.pc = "fetch", !.fetches = @ + 1]
                ELSE [r EXCEPT !.pc = "fileBytes", !.bodyReads = @ + 1]

\* fetch settled: throw unless response.ok, else read the body.
ResolveFetchSettled_unchecked(answer) ==
    /\ rs.pc = "fetch"
    /\ LET r == [rs EXCEPT !.response = answer]
       IN rs' = CASE answer \in {"ok", "notOk"} ->
                        [r EXCEPT !.pc = "body", !.bodyReads = @ + 1]
                  [] OTHER -> [r EXCEPT !.pc = "threw", !.error = "FetchRejected"]

ResolveFetchSettled(answer) ==
    /\ rs.pc = "fetch"
    /\ LET r == [rs EXCEPT !.response = answer]
       IN rs' = CASE answer = "ok" -> [r EXCEPT !.pc = "body", !.bodyReads = @ + 1]
                  [] answer = "notOk" -> [r EXCEPT !.pc = "threw", !.error = "FetchFailed"]
                  [] OTHER -> [r EXCEPT !.pc = "threw", !.error = "FetchRejected"]

\* response.arrayBuffer() resolved: the extractor (the caller's, which may
\* return any name, or the default) names the document.
ResolveBodyRead(customResult) ==
    /\ rs.pc = "body"
    /\ LET extracted == IF rs.customExtractor THEN customResult
                        ELSE defaultFilenameExtractor(rs.currentFile)
       IN rs' = [rs EXCEPT !.pc = "returned", !.hasBytes = TRUE,
                           !.extractorCalls = @ + 1,
                           !.extracted = extracted,
                           !.originalName = StripPdfSuffix(extracted)]

\* currentFile.arrayBuffer() resolved.
ResolveFileRead ==
    /\ rs.pc = "fileBytes"
    /\ rs' = [rs EXCEPT !.pc = "returned", !.hasBytes = TRUE,
                        !.originalName = StripPdfSuffix(rs.currentFile.name)]

ResolveDone ==
    /\ rs.pc \in {"returned", "threw"}
    /\ rs' = ResolveIdle

\* ---------------------------------------------- buildAnnotatedPdfExporter
\* new PDFExporter(); setOriginalPDF(pdfBytes)
NewExporter(pdfBytes) == [originalPDF |-> pdfBytes, pageCanvases |-> {}]

\* exporter.setPageCanvas(pageNumber, canvas): one canvas per page number.
setPageCanvas(exporter, pageNumber, canvas) ==
    [exporter EXCEPT !.pageCanvases =
        {e \in @ : e.page # pageNumber} \cup {[page |-> pageNumber, canvas |-> canvas]}]

MergeIdle ==
    [pc |-> "idle", totalPages |-> 0, captureAllPages |-> FALSE, pageNumber |-> 0,
     exporter |-> NewExporter(NoBuffer),
     annotated |-> {}, asked |-> {}, requested |-> {}, rendered |-> {},
     error |-> "none"]

\* if (hasAnnotations || captureAllPages)
NeedsCapture(hasAnnotations, captureAllPages) == hasAnnotations \/ captureAllPages

\* for (...; pageNumber <= totalPages; ...): the next annotation query, or
\* `return exporter`.
MergeLoopTest(r) ==
    IF r.pageNumber <= r.totalPages
    THEN [r EXCEPT !.pc = "hasAnnotations", !.asked = @ \cup {r.pageNumber}]
    ELSE [r EXCEPT !.pc = "returned"]

\* The call: runs to the first `await pdfViewer.pageHasAnnotations(1)`.
MergeCall(pdfBytes, totalPages, captureAllPages) ==
    /\ mg.pc = "idle"
    /\ mg' = MergeLoopTest([MergeIdle EXCEPT !.totalPages = totalPages,
                                             !.captureAllPages = captureAllPages,
                                             !.exporter = NewExporter(pdfBytes),
                                             !.pageNumber = 1])

\* pageHasAnnotations resolved: request the merged canvas, or go to the next page.
MergeAnnotationsResolved(hasAnnotations) ==
    /\ mg.pc = "hasAnnotations"
    /\ LET r == IF hasAnnotations
                THEN [mg EXCEPT !.annotated = @ \cup {mg.pageNumber}]
                ELSE mg
       IN mg' = IF NeedsCapture(hasAnnotations, mg.captureAllPages)
                THEN [r EXCEPT !.pc = "canvas", !.requested = @ \cup {mg.pageNumber}]
                ELSE MergeLoopTest([r EXCEPT !.pageNumber = @ + 1])

\* getMergedCanvasForPage resolved: keep the canvas if there is one; next page.
MergeCanvasResolved(canvas) ==
    /\ mg.pc = "canvas"
    /\ LET got == [mg EXCEPT !.rendered =
                      IF canvas = NullCanvas THEN @ ELSE @ \cup {mg.pageNumber}]
           r == IF CanvasMissing(canvas)
                THEN got
                ELSE [got EXCEPT !.exporter = setPageCanvas(@, mg.pageNumber, canvas)]
       IN mg' = MergeLoopTest([r EXCEPT !.pageNumber = @ + 1])

MergeDone ==
    /\ mg.pc \in {"returned", "threw"}
    /\ mg' = MergeIdle

\* ------------------------------------------------------- PngExport.svelte
\* A doExport run: where it waits, and the context it took at its start.
RunIdle == [pc |-> "idle", totalPages |-> 0, currentPage |-> 0, baseName |-> <<>>]

\* exportMessage is a template and the number put into it.
Message(tmpl, n) == [tmpl |-> tmpl, n |-> n]

\* The component after construction. started, refused, closedInFlight and
\* decreased are history: doExport has run; open() returned at its
\* isExporting test; the progress card wrote isExporting while a run was in
\* flight; exportProgress was given a value below the one it had, after the
\* last doExport gave it its initial value.
PngIdle ==
    [isExporting |-> FALSE, exportOperation |-> "", exportStatus |-> "processing",
     exportMessage |-> Message("", 0), exportProgress |-> 0,
     run |-> [r \in CallIds |-> RunIdle],
     started |-> FALSE, refused |-> FALSE, closedInFlight |-> FALSE,
     decreased |-> FALSE]

RunsInFlight == {r \in CallIds : px.run[r].pc # "idle"}

\* The run a new doExport gets (the runs are told apart by number only).
FreeRun == CHOOSE r \in CallIds \ RunsInFlight :
              \A q \in CallIds \ RunsInFlight : r <= q

\* doExport up to `await forceSaveAllAnnotations()`.
doExport(c, ctx) ==
    [c EXCEPT !.isExporting = TRUE,
              !.exportStatus = "processing",
              !.exportProgress = 5,
              !.decreased = FALSE,
              !.started = TRUE,
              !.run[FreeRun] = [pc |-> "saving", totalPages |-> ctx.totalPages,
                                currentPage |-> ctx.currentPage,
                                baseName |-> ctx.baseName]]

\* The catch block of doExport.
ExportFailed(c, r) ==
    [c EXCEPT !.exportProgress = 0,
              !.decreased = @ \/ 0 < c.exportProgress,
              !.exportStatus = "error",
              !.exportOperation = "Export Failed",
              !.exportMessage = Message("Failed to export as PNG. Please try again.", 0),
              !.run[r] = RunIdle]

\* The code of doExport after the export call has given `success`.
ExportSettled(c, r, success) ==
    IF success
    THEN [c EXCEPT !.exportProgress = 100,
                   !.decreased = @ \/ 100 < c.exportProgress,
                   !.exportStatus = "success",
                   !.exportOperation = "Export Complete",
                   !.exportMessage =
                       Message(IF c.run[r].totalPages = 1
                               THEN "${baseName}_page${currentPage}.png"
                               ELSE "${baseName}_pages.zip", 0),
                   !.run[r] = RunIdle]
    ELSE [c EXCEPT !.isExporting = FALSE, !.run[r] = RunIdle]

\* open(), hasContext telling whether the parent has set getExportContext:
\* nothing without it, nothing while isExporting, else doExport. (The model
\* keeps at most as many runs as CallIds has numbers.)
PngOpen_unguarded(hasContext, ctx) ==
    /\ RunsInFlight # CallIds
    /\ px' = IF ~hasContext THEN px
             ELSE doExport(px, ctx)
    /\ UNCHANGED zc

PngOpen(hasContext, ctx) ==
    /\ RunsInFlight # CallIds
    /\ px' = IF ~hasContext THEN px
             ELSE IF px.isExporting THEN [px EXCEPT !.refused = TRUE]
             ELSE doExport(px, ctx)
    /\ UNCHANGED zc

\* forceSaveAllAnnotations() settled: the catch block when it rejected, else
\* on to the export call of the run, up to that call's first await.
PngSaved(r, resolved) ==
    /\ px.run[r].pc = "saving"
    /\ LET run == px.run[r]
           isSinglePage == run.totalPages = 1
           named == [px EXCEPT
                       !.exportOperation =
                           IF isSinglePage THEN "Exporting PNG" ELSE "Exporting PNGs",
                       !.exportMessage =
                           IF isSinglePage THEN Message("Rendering page...", 0)
                           ELSE Message("Rendering ${totalPages} pages...", run.totalPages)]
       IN IF ~resolved
          THEN px' = ExportFailed(px, r) /\ UNCHANGED zc
          ELSE IF isSinglePage
          THEN /\ px' = [named EXCEPT !.exportProgress = 30,
                                      !.decreased = @ \/ 30 < px.exportProgress,
                                      !.exportMessage = Message("Converting to PNG...", 0),
                                      !.run[r].pc = "single"]
               /\ UNCHANGED zc
          ELSE /\ px' = [named EXCEPT !.run[r].pc = "zip"]
               /\ ZipCall(r, run.totalPages, run.baseName, TRUE)

\* The onProgress callback doExport passes to exportAllPagesAsPngZip, applied
\* to what the step of call r has just reported (a step reports at most once).
Shown(c, before, after) ==
    IF Len(after.progress) > Len(before.progress)
    THEN [c EXCEPT !.exportProgress = after.progress[Len(after.progress)],
                   !.decreased =
                       @ \/ after.progress[Len(after.progress)] < c.exportProgress,
                   !.exportMessage = Message("Rendering pages... ${percent}%",
                                             after.progress[Len(after.progress)])]
    ELSE c

\* exportCurrentPageAsPng settled: true, false (save dialog dismissed) or an
\* error (no canvas, encode failure).
SingleOutcomes == {"true", "false", "threw"}

PngSingleSettled(r, outcome) ==
    /\ px.run[r].pc = "single"
    /\ px' = IF outcome = "threw" THEN ExportFailed(px, r)
             ELSE ExportSettled(px, r, outcome = "true")
    /\ UNCHANGED zc

\* exportAllPagesAsPngZip settled.
PngZipSettled(r) ==
    /\ px.run[r].pc = "zip"
    /\ zc[r].pc \in {"returned", "threw"}
    /\ px' = IF zc[r].pc = "threw" THEN ExportFailed(px, r)
             ELSE ExportSettled(px, r, zc[r].result)
    /\ ZipDone(r)

\* <ExportProgressCard bind:isExporting />: the card writes isExporting.
CardClosed ==
    /\ px.isExporting
    /\ px' = [px EXCEPT !.isExporting = FALSE,
                        !.closedInFlight = @ \/ RunsInFlight # {}]
    /\ UNCHANGED zc

\* -------------------------------------------------------------- PanInertia
\* Velocities are kept in thousandths of a pixel per frame, products rounded
\* toward zero; decay is in hundredths, minSpeed in thousandths.
decay == 92
minSpeed == 500

\* Deltas (dx, dy) of a pointermove, in thousandths: 2 px to the right, 2 px
\* to the left and 0.4 px down, 0.4 px to the right.
Deltas == {<<2000, 0>>, <<0 - 2000, 400>>, <<400, 0>>}

Abs(v) == IF v < 0 THEN 0 - v ELSE v

Scaled(v, num, den) ==
    IF v >= 0 THEN (v * num) \div den ELSE 0 - ((Abs(v) * num) \div den)

AboveThreshold(vx, vy) == Abs(vx) >= minSpeed \/ Abs(vy) >= minSpeed

\* A new PanInertia. samples, started, armed, frames and ended are history:
\* the samples fed since the instance was made or cancelled; start has been
\* called; the velocity held when it was last called was at or above minSpeed
\* on some axis; the onFrame calls since then; that animation has stopped by
\* itself.
PanIdle ==
    [vx |-> 0, vy |-> 0, rafId |-> "null",
     samples |-> 0, started |-> FALSE, armed |-> FALSE, frames |-> 0,
     ended |-> FALSE]

\* addSample(dx, dy)
addSample(p, dx, dy) ==
    [p EXCEPT !.vx = Scaled(dx, 6, 10) + Scaled(p.vx, 4, 10),
              !.vy = Scaled(dy, 6, 10) + Scaled(p.vy, 4, 10),
              !.samples = @ + 1]

\* cancel()
cancel(p) ==
    [p EXCEPT !.rafId = "null", !.vx = 0, !.vy = 0]

\* start(onFrame): cancel(), then the first frame is requested.
start(p) ==
    [cancel(p) EXCEPT !.rafId = "requested",
                      !.started = TRUE, !.armed = AboveThreshold(p.vx, p.vy),
                      !.frames = 0, !.ended = FALSE]

\* tick: decay, stop below minSpeed on both axes, else onFrame and next frame.
tick(p) ==
    LET vx == Scaled(p.vx, decay, 100)
        vy == Scaled(p.vy, decay, 100)
    IN IF Abs(vx) < minSpeed /\ Abs(vy) < minSpeed
       THEN [p EXCEPT !.vx = 0, !.vy = 0, !.rafId = "null", !.ended = TRUE]
       ELSE [p EXCEPT !.vx = vx, !.vy = vy, !.rafId = "requested",
                      !.frames = @ + 1]

\* A pointermove of the gesture (at most MaxSamples of them between two
\* cancels).
PanAddSample(dx, dy) ==
    /\ pn.samples < MaxSamples
    /\ pn' = addSample(pn, dx, dy)

PanStart ==
    /\ pn' = start(pn)

\* The browser runs the requested animation frame.
PanTick ==
    /\ pn.rafId = "requested"
    /\ pn' = tick(pn)

PanCancel ==
    /\ pn' = [cancel(pn) EXCEPT !.samples = 0]

\* ---------------------------------------------------- DropzonePage.svelte
\* s.includes(sub)
Includes(s, sub) ==
    \E i \in 0..(Len(s) - Len(sub)) : SubSeq(s, i + 1, i + Len(sub)) = sub

\* Sizes are counted in units of which MAX_FILE_SIZE is two.
MAX_FILE_SIZE == 2
Sizes == 1..(MAX_FILE_SIZE + 1)

\* Values of the accept prop on the pages that use the component.
Accepts ==
    {PDF_EXT, <<".", "m", "d">>, <<"m", "a", "r", "k", "d", "o", "w", "n">>,
     <<"i", "m", "a", "g", "e", "/", "*">>, <<".", "P", "N", "G">>,
     <<".", "j", "p", "e", "g">>}

\* /\.(png|jpe?g|webp)/i.test(accept)
ImageExts == {<<".", "p", "n", "g">>, <<".", "j", "p", "g">>, <<".", "j", "p", "e", "g">>, <<".", "w", "e", "b", "p">>}

acceptsImages(accept) ==
    \/ Includes(accept, <<"i", "m", "a", "g", "e">>)
    \/ \E e \in ImageExts : Includes(toLowerCase(accept), e)

acceptsMarkdown(accept) ==
    Includes(accept, <<".", "m", "d">>) \/ Includes(accept, <<"m", "a", "r", "k", "d", "o", "w", "n">>)

acceptsPDF(accept) == Includes(accept, PDF_EXT)

\* name.replace(/\.(md|markdown|mdown|mkd|mkdn)$/i, '.pdf'), then '.pdf' is
\* appended unless /\.pdf$/i matches.
MarkdownExts == {<<".", "m", "d">>, <<".", "m", "a", "r", "k", "d", "o", "w", "n">>, <<".", "m", "d", "o", "w", "n">>, <<".", "m", "k", "d">>, <<".", "m", "k", "d", "n">>}

MarkdownPdfFilename(name) ==
    LET replaced ==
            IF \E e \in MarkdownExts : endsWith(toLowerCase(name), e)
            THEN LET e == CHOOSE x \in MarkdownExts : endsWith(toLowerCase(name), x)
                 IN SubSeq(name, 1, Len(name) - Len(e)) \o PDF_EXT
            ELSE name
    IN IF MatchesPdfSuffix(replaced) THEN replaced ELSE replaced \o PDF_EXT

\* The files a user can choose: the name, the size, and what isValidImageFile,
\* isValidMarkdownFile and isValidPDFFile say of the file.
UploadNames == {<<"n", ".", "M", "D">>, <<"n">>}
NoFile == [name |-> <<>>, size |-> 0, image |-> FALSE, markdown |-> FALSE, pdf |-> FALSE]
UploadFiles ==
    {[name |-> n, size |-> sz, image |-> i, markdown |-> m, pdf |-> p] :
        n \in UploadNames, sz \in Sizes, i \in BOOLEAN, m \in BOOLEAN, p \in BOOLEAN}
FileLists == {<<>>} \cup {<<f>> : f \in UploadFiles}

\* The component after construction, no handleFileUpload run in flight. The
\* fields from accept on are the run's locals and its history: the conversions
\* it started, the sizes they gave, the sizes passed to storeUploadedFile, the
\* goto calls, the toasts.
DropIdle ==
    [isProcessing |-> FALSE, dragOver |-> FALSE, pc |-> "idle",
     accept |-> <<>>, file |-> NoFile,
     isImage |-> FALSE, isMarkdown |-> FALSE, isPDF |-> FALSE,
     pdfFilename |-> <<>>, fileToStore |-> 0,
     conversions |-> <<>>, convertedSizes |-> <<>>, stores |-> <<>>, gotos |-> 0,
     toasts |-> <<>>]

Toast(d, title) == [d EXCEPT !.toasts = Append(@, title)]

\* The catch block of handleFileUpload.
UploadFailed_locked(d) ==
    [Toast(d, "Upload Error") EXCEPT !.pc = "idle"]

UploadFailed(d) ==
    [Toast(d, "Upload Error") EXCEPT !.isProcessing = FALSE, !.pc = "idle"]

\* The size test on fileToStore and the call of storeUploadedFile.
StoreOrReject_unchecked(d, size) ==
    [d EXCEPT !.fileToStore = size, !.pc = "store", !.stores = Append(@, size)]

StoreOrReject(d, size) ==
    IF size > MAX_FILE_SIZE
    THEN [Toast(d, "File Too Large") EXCEPT !.fileToStore = size,
                                            !.isProcessing = FALSE, !.pc = "idle"]
    ELSE [d EXCEPT !.fileToStore = size, !.pc = "store", !.stores = Append(@, size)]

\* handleFileUpload(files) up to its first await.
handleFileUpload(d, accept, files) ==
    IF Len(files) = 0 THEN d
    ELSE
      LET file == files[1]
          isImage == acceptsImages(accept) /\ file.image
          isMarkdown == acceptsMarkdown(accept) /\ file.markdown
          isPDF == acceptsPDF(accept) /\ file.pdf
          run == [DropIdle EXCEPT !.isProcessing = d.isProcessing,
                                  !.accept = accept, !.file = file,
                                  !.isImage = isImage, !.isMarkdown = isMarkdown,
                                  !.isPDF = isPDF]
      IN IF ~isPDF /\ ~isMarkdown /\ ~isImage THEN Toast(run, "Invalid File")
         ELSE IF file.size > MAX_FILE_SIZE THEN Toast(run, "File Too Large")
         ELSE LET busy == [run EXCEPT !.isProcessing = TRUE]
              IN IF isMarkdown
                 THEN [Toast(busy, "Converting...") EXCEPT
                          !.pc = "readMarkdown",
                          !.conversions = Append(@, "readMarkdownFile")]
                 ELSE IF isImage
                 THEN [Toast(busy, "Converting...") EXCEPT
                          !.pc = "convertImage",
                          !.conversions = Append(@, "convertImageToPDF")]
                 ELSE StoreOrReject(busy, file.size)

\* on:dragover, on:dragleave
DzDragOver ==
    /\ dz' = IF ~dz.isProcessing THEN [dz EXCEPT !.dragOver = TRUE] ELSE dz

DzDragLeave ==
    /\ dz' = [dz EXCEPT !.dragOver = FALSE]

\* on:drop (handleDrop): nothing while isProcessing.
DzDrop(accept, files) ==
    /\ dz' = IF dz.isProcessing THEN dz
             ELSE handleFileUpload([dz EXCEPT !.dragOver = FALSE], accept, files)

\* on:change of the file input, which is disabled while isProcessing.
DzChoose(accept, files) ==
    /\ ~dz.isProcessing
    /\ Len(files) > 0
    /\ dz' = handleFileUpload(dz, accept, files)

\* readMarkdownFile(file) settled: on to convertMarkdownToPDF, or the catch.
DzMarkdownRead(resolved) ==
    /\ dz.pc = "readMarkdown"
    /\ dz' = IF resolved
             THEN [dz EXCEPT !.pc = "convertMarkdown",
                             !.pdfFilename = MarkdownPdfFilename(dz.file.name),
                             !.conversions = Append(@, "convertMarkdownToPDF")]
             ELSE UploadFailed(dz)

\* convertMarkdownToPDF or convertImageToPDF settled: a file of some size, or
\* an error (size 0 stands for the rejection).
ConversionAnswers == {0} \cup Sizes

DzConverted(answer) ==
    /\ dz.pc \in {"convertMarkdown", "convertImage"}
    /\ dz' = IF answer = 0 THEN UploadFailed(dz)
             ELSE StoreOrReject([dz EXCEPT !.convertedSizes = Append(@, answer)],
                                answer)

\* storeUploadedFile settled: { success, id, error }, or a rejection.
StoreAnswers ==
    {[threw |-> t, success |-> ok, id |-> id] :
        t \in BOOLEAN, ok \in BOOLEAN, id \in BOOLEAN}

DzStored(result) ==
    /\ dz.pc = "store"
    /\ dz' = IF result.threw THEN UploadFailed(dz)
             ELSE IF result.success /\ result.id
             THEN [dz EXCEPT !.pc = "goto", !.gotos = @ + 1]
             ELSE [Toast(dz, "Storage Error") EXCEPT !.isProcessing = FALSE,
                                                     !.pc = "idle"]

\* goto settled: the finally block, and the catch block after it when goto
\* rejected.
DzNavigated(resolved) ==
    /\ dz.pc = "goto"
    /\ dz' = IF resolved THEN [dz EXCEPT !.isProcessing = FALSE, !.pc = "idle"]
             ELSE UploadFailed([dz EXCEPT !.isProcessing = FALSE])

\* ------------------------------------------------------- touch gesture hint
\* $drawingState.tool: the freehand tools and one other.
FreehandTools == {"pencil", "eraser", "highlight"}
Tools == FreehandTools \cup {"select"}

\* localStorage.getItem(STORAGE_KEY): the stored value, or an exception.
\* localStorage.setItem(STORAGE_KEY, 'true'): done, or an exception.
StorageAnswers == {"ok", "throws"}

\* The component after construction, with a tool that is not a freehand one.
\* seen is localStorage's entry for STORAGE_KEY being 'true'; timer, a dismiss
\* timer is pending. shows, shownFor, dismissed and lost are history: how
\* often visible went from false to true and for which tools; a dismiss timer
\* has fired; a setItem has thrown.
HintIdle ==
    [tool |-> "select", isFreehandTool |-> FALSE, visible |-> FALSE,
     timer |-> FALSE, seen |-> FALSE,
     shows |-> 0, shownFor |-> <<>>, dismissed |-> FALSE, lost |-> FALSE]

\* tryShow(), getItem answering as given.
tryShow(h, getItem) ==
    IF h.visible THEN h
    ELSE IF getItem = "throws" THEN h
    ELSE IF h.seen THEN h
    ELSE [h EXCEPT !.visible = TRUE, !.timer = TRUE, !.shows = @ + 1,
                   !.shownFor = Append(@, h.tool)]

\* The store gives another tool: isFreehandTool is recomputed and, when it
\* has changed, the reactive statement of line 119 runs (touch: whether
\* navigator.maxTouchPoints > 0). At most MaxShows shows are followed.
HintToolChanged(tool, touch, getItem) ==
    /\ tool # gh.tool
    /\ gh.shows < MaxShows
    /\ LET isFreehandTool == tool \in FreehandTools
           h == [gh EXCEPT !.tool = tool, !.isFreehandTool = isFreehandTool]
       IN gh' = IF isFreehandTool # gh.isFreehandTool /\ isFreehandTool /\ touch
                THEN tryShow(h, getItem)
                ELSE h

\* The dismiss timer fires: visible = false, then setItem in a try block.
HintTimerFired(setItem) ==
    /\ gh.timer
    /\ gh' = [gh EXCEPT !.timer = FALSE, !.visible = FALSE, !.dismissed = TRUE,
                        !.seen = IF setItem = "ok" THEN TRUE ELSE @,
                        !.lost = IF setItem = "ok" THEN @ ELSE TRUE]

\* ---------------------------------------------------------- GestureTracker
\* Pointer events: pointerId, clientX, clientY. The coordinates are such that
\* every distance between two of them is a whole number.
PointerIds == 1..MaxPointers
PointerEvents ==
    {[pointerId |-> id, clientX |-> x, clientY |-> y] :
        id \in PointerIds, x \in {0, 6}, y \in {0, 8}}

\* A new GestureTracker. activePointers is the Map in insertion order. live
\* and retracked are history: the ids tracked and not untracked or reset
\* since; track has been called for an id that was tracked already.
TrackerIdle == [activePointers |-> <<>>, live |-> {}, retracked |-> FALSE]

\* Map.prototype.set: the value of a key that is present is replaced where it
\* stands, a new key goes to the end.
MapSet_append(entries, e) == Append(entries, e)

MapSet(entries, e) ==
    IF \E i \in 1..Len(entries) : entries[i].pointerId = e.pointerId
    THEN [i \in 1..Len(entries) |->
             IF entries[i].pointerId = e.pointerId THEN e ELSE entries[i]]
    ELSE Append(entries, e)

\* Map.prototype.delete
MapDelete(entries, id) == SelectSeq(entries, LAMBDA x : x.pointerId # id)

\* get count()
count(t) == Len(t.activePointers)

\* Math.sqrt, on the squares that occur.
MathSqrt(n) == CHOOSE r \in 0..n : r * r = n

\* getPinchDistance()
getPinchDistance(t) ==
    IF Len(t.activePointers) < 2 THEN 0
    ELSE LET a == t.activePointers[1]
             b == t.activePointers[2]
             dx == a.clientX - b.clientX
             dy == a.clientY - b.clientY
         IN MathSqrt(dx * dx + dy * dy)

\* getPinchMidpoint()
getPinchMidpoint(t) ==
    IF Len(t.activePointers) < 2 THEN [x |-> 0, y |-> 0]
    ELSE LET a == t.activePointers[1]
             b == t.activePointers[2]
         IN [x |-> (a.clientX + b.clientX) \div 2,
             y |-> (a.clientY + b.clientY) \div 2]

\* getFirstPointer(): the empty sequence stands for null.
getFirstPointer(t) ==
    IF Len(t.activePointers) >= 1
    THEN <<[x |-> t.activePointers[1].clientX, y |-> t.activePointers[1].clientY]>>
    ELSE <<>>

\* track(e)
GtTrack(e) ==
    /\ gt' = [gt EXCEPT !.activePointers = MapSet(@, e),
                        !.live = @ \cup {e.pointerId},
                        !.retracked = @ \/ e.pointerId \in gt.live]

\* untrack(e)
GtUntrack(e) ==
    /\ gt' = [gt EXCEPT !.activePointers = MapDelete(@, e.pointerId),
                        !.live = @ \ {e.pointerId}]

\* reset()
GtReset ==
    /\ gt' = [gt EXCEPT !.activePointers = <<>>, !.live = {}]

\* ------------------------------------------------------------ specification
Init ==
    /\ zc = [c \in CallIds |-> ZipIdle]
    /\ sp = PageIdle
    /\ cp = CompressIdle
    /\ rs = ResolveIdle
    /\ mg = MergeIdle
    /\ px = PngIdle
    /\ pn = PanIdle
    /\ dz = DropIdle
    /\ gh = HintIdle
    /\ gt = TrackerIdle

NoneInFlight ==
    /\ \A c \in CallIds : zc[c].pc = "idle"
    /\ sp.pc = "idle"
    /\ cp.pc = "idle"
    /\ rs.pc = "idle"
    /\ mg.pc = "idle"

\* One caller that awaits every call before it makes the next.
Next ==
    \/ \E c \in SoleCall, n \in 1..MaxPages, b \in BaseNames, h \in BOOLEAN :
          NoneInFlight /\ ZipCall(c, n, b, h) /\ UNCHANGED <<sp, cp, rs, mg, ui>>
    \/ \E c \in SoleCall : ZipImported(c) /\ UNCHANGED <<sp, cp, rs, mg, ui>>
    \/ \E c \in SoleCall : \E canvas \in MergedCanvasAnswers(zc[c].page) :
          ZipCanvasResolved(c, canvas) /\ UNCHANGED <<sp, cp, rs, mg, ui>>
    \/ \E c \in SoleCall : \E b \in ToBlobAnswers(zc[c].canvas) :
          ZipBlobSettled(c, b) /\ UNCHANGED <<sp, cp, rs, mg, ui>>
    \/ \E c \in SoleCall : ZipBytesRead(c) /\ UNCHANGED <<sp, cp, rs, mg, ui>>
    \/ \E c \in SoleCall : ZipGenerated(c) /\ UNCHANGED <<sp, cp, rs, mg, ui>>
    \/ \E c \in SoleCall, saved \in FileSinkAnswers :
          ZipSinkResolved(c, saved) /\ UNCHANGED <<sp, cp, rs, mg, ui>>
    \/ \E c \in SoleCall : ZipDone(c) /\ UNCHANGED <<sp, cp, rs, mg, ui>>
    \/ \E n \in 1..MaxPages, b \in BaseNames :
          NoneInFlight /\ PageCall(n, b) /\ UNCHANGED <<zc, cp, rs, mg, ui>>
    \/ \E canvas \in MergedCanvasAnswers(sp.currentPage) :
          PageCanvasResolved(canvas) /\ UNCHANGED <<zc, cp, rs, mg, ui>>
    \/ \E b \in ToBlobAnswers(sp.canvas) :
          PageBlobSettled(b) /\ UNCHANGED <<zc, cp, rs, mg, ui>>
    \/ \E saved \in FileSinkAnswers :
          PageSinkResolved(saved) /\ UNCHANGED <<zc, cp, rs, mg, ui>>
    \/ PageDone /\ UNCHANGED <<zc, cp, rs, mg, ui>>
    \/ \E t \in BOOLEAN, bytes \in InputBuffers, q \in Qualities :
          NoneInFlight /\ CompressCall(t, bytes, q) /\ UNCHANGED <<zc, sp, rs, mg, ui>>
    \/ \E a \in NativeAnswers(cp.pdfBytes, cp.quality) :
          CompressInvokeSettled(a) /\ UNCHANGED <<zc, sp, rs, mg, ui>>
    \/ CompressLoadSettled /\ UNCHANGED <<zc, sp, rs, mg, ui>>
    \/ \E a \in SaveAnswers(cp.pdfBytes) :
          CompressSaveSettled(a) /\ UNCHANGED <<zc, sp, rs, mg, ui>>
    \/ CompressDone /\ UNCHANGED <<zc, sp, rs, mg, ui>>
    \/ \E f \in Files \cup Urls, custom \in BOOLEAN :
          NoneInFlight /\ ResolveCall(f, custom) /\ UNCHANGED <<zc, sp, cp, mg, ui>>
    \/ \E a \in FetchAnswers :
          ResolveFetchSettled(a) /\ UNCHANGED <<zc, sp, cp, mg, ui>>
    \/ \E name \in (IF rs.customExtractor THEN FileNames ELSE {<<>>}) :
          ResolveBodyRead(name) /\ UNCHANGED <<zc, sp, cp, mg, ui>>
    \/ ResolveFileRead /\ UNCHANGED <<zc, sp, cp, mg, ui>>
    \/ ResolveDone /\ UNCHANGED <<zc, sp, cp, mg, ui>>
    \/ \E bytes \in InputBuffers, n \in 1..MaxPages, all \in BOOLEAN :
          NoneInFlight /\ MergeCall(bytes, n, all) /\ UNCHANGED <<zc, sp, cp, rs, ui>>
    \/ \E has \in BOOLEAN :
          MergeAnnotationsResolved(has) /\ UNCHANGED <<zc, sp, cp, rs, ui>>
    \/ \E canvas \in MergedCanvasAnswers(mg.pageNumber) :
          MergeCanvasResolved(canvas) /\ UNCHANGED <<zc, sp, cp, rs, ui>>
    \/ MergeDone /\ UNCHANGED <<zc, sp, cp, rs, ui>>

Spec == Init /\ [][Next]_vars

\* Two callers of exportAllPagesAsPngZip, neither waiting for the other: the
\* calls interleave at every await.
NextConcurrent ==
    \/ \E c \in CallIds, n \in 1..MaxConcurrentPages, b \in BaseNames, h \in BOOLEAN :
          ZipCall(c, n, b, h) /\ UNCHANGED <<sp, cp, rs, mg, ui>>
    \/ \E c \in CallIds : ZipImported(c) /\ UNCHANGED <<sp, cp, rs, mg, ui>>
    \/ \E c \in CallIds : \E canvas \in MergedCanvasAnswers(zc[c].page) :
          ZipCanvasResolved(c, canvas) /\ UNCHANGED <<sp, cp, rs, mg, ui>>
    \/ \E c \in CallIds : \E b \in ToBlobAnswers(zc[c].canvas) :
          ZipBlobSettled(c, b) /\ UNCHANGED <<sp, cp, rs, mg, ui>>
    \/ \E c \in CallIds : ZipBytesRead(c) /\ UNCHANGED <<sp, cp, rs, mg, ui>>
    \/ \E c \in CallIds : ZipGenerated(c) /\ UNCHANGED <<sp, cp, rs, mg, ui>>
    \/ \E c \in CallIds, saved \in FileSinkAnswers :
          ZipSinkResolved(c, saved) /\ UNCHANGED <<sp, cp, rs, mg, ui>>
    \/ \E c \in CallIds : ZipDone(c) /\ UNCHANGED <<sp, cp, rs, mg, ui>>

SpecConcurrent == Init /\ [][NextConcurrent]_vars

\* The PngExport component: its parent calls open() at any time, the progress
\* card writes isExporting at any time, and the runs of doExport go on at their
\* awaits.
\* The documents exported: short ones, and a long one of LongExportPages
\* pages, every page of which the viewer renders.
ExportContexts ==
    {[totalPages |-> n, currentPage |-> p, baseName |-> b] :
        n \in (1..MaxExportPages) \cup {LongExportPages}, p \in {1}, b \in {<<"r">>}}

ExportCanvasAnswers(r) ==
    IF zc[r].totalPages > MaxExportPages
    THEN {CanvasOf(zc[r].page)}
    ELSE MergedCanvasAnswers(zc[r].page)

NextPng ==
    \/ \E has \in BOOLEAN, ctx \in ExportContexts :
          PngOpen(has, ctx) /\ UNCHANGED <<sp, cp, rs, mg, pn, dz, gh, gt>>
    \/ \E r \in CallIds, resolved \in BOOLEAN :
          PngSaved(r, resolved) /\ UNCHANGED <<sp, cp, rs, mg, pn, dz, gh, gt>>
    \/ \E r \in CallIds, o \in SingleOutcomes :
          PngSingleSettled(r, o) /\ UNCHANGED <<sp, cp, rs, mg, pn, dz, gh, gt>>
    \/ \E r \in CallIds : ZipImported(r) /\ UNCHANGED <<sp, cp, rs, mg, ui>>
    \/ \E r \in CallIds : \E canvas \in ExportCanvasAnswers(r) :
          ZipCanvasResolved(r, canvas) /\ UNCHANGED <<sp, cp, rs, mg, ui>>
    \/ \E r \in CallIds : \E b \in ToBlobAnswers(zc[r].canvas) :
          ZipBlobSettled(r, b) /\ UNCHANGED <<sp, cp, rs, mg, ui>>
    \/ \E r \in CallIds :
          ZipBytesRead(r) /\ px' = Shown(px, zc[r], zc'[r])
                          /\ UNCHANGED <<sp, cp, rs, mg, pn, dz, gh, gt>>
    \/ \E r \in CallIds :
          ZipGenerated(r) /\ px' = Shown(px, zc[r], zc'[r])
                          /\ UNCHANGED <<sp, cp, rs, mg, pn, dz, gh, gt>>
    \/ \E r \in CallIds, saved \in FileSinkAnswers :
          ZipSinkResolved(r, saved) /\ px' = Shown(px, zc[r], zc'[r])
                                    /\ UNCHANGED <<sp, cp, rs, mg, pn, dz, gh, gt>>
    \/ \E r \in CallIds : PngZipSettled(r) /\ UNCHANGED <<sp, cp, rs, mg, pn, dz, gh, gt>>
    \/ CardClosed /\ UNCHANGED <<sp, cp, rs, mg, pn, dz, gh, gt>>

SpecPng == Init /\ [][NextPng]_vars

\* One PanInertia instance under a gesture handler: samples while the finger
\* moves, start on release, cancel on the next touch, frames in between.
NextPan ==
    \/ \E d \in Deltas :
          PanAddSample(d[1], d[2]) /\ UNCHANGED <<zc, sp, cp, rs, mg, px, dz, gh, gt>>
    \/ PanStart /\ UNCHANGED <<zc, sp, cp, rs, mg, px, dz, gh, gt>>
    \/ PanTick /\ UNCHANGED <<zc, sp, cp, rs, mg, px, dz, gh, gt>>
    \/ PanCancel /\ UNCHANGED <<zc, sp, cp, rs, mg, px, dz, gh, gt>>

SpecPan == Init /\ [][NextPan]_vars

\* One DropzonePage: the user drags, drops and chooses files at any time, and
\* the run of handleFileUpload goes on at its awaits.
NextDrop ==
    \/ DzDragOver /\ UNCHANGED <<zc, sp, cp, rs, mg, px, pn, gh, gt>>
    \/ DzDragLeave /\ UNCHANGED <<zc, sp, cp, rs, mg, px, pn, gh, gt>>
    \/ \E accept \in Accepts, files \in FileLists :
          DzDrop(accept, files) /\ UNCHANGED <<zc, sp, cp, rs, mg, px, pn, gh, gt>>
    \/ \E accept \in Accepts, files \in FileLists :
          DzChoose(accept, files) /\ UNCHANGED <<zc, sp, cp, rs, mg, px, pn, gh, gt>>
    \/ \E resolved \in BOOLEAN :
          DzMarkdownRead(resolved) /\ UNCHANGED <<zc, sp, cp, rs, mg, px, pn, gh, gt>>
    \/ \E answer \in ConversionAnswers :
          DzConverted(answer) /\ UNCHANGED <<zc, sp, cp, rs, mg, px, pn, gh, gt>>
    \/ \E result \in StoreAnswers :
          DzStored(result) /\ UNCHANGED <<zc, sp, cp, rs, mg, px, pn, gh, gt>>
    \/ \E resolved \in BOOLEAN :
          DzNavigated(resolved) /\ UNCHANGED <<zc, sp, cp, rs, mg, px, pn, gh, gt>>

SpecDrop == Init /\ [][NextDrop]_vars

\* The gesture hint: the user changes tools at any time, the dismiss timer
\* fires when it is pending.
NextHint ==
    \/ \E tool \in Tools, touch \in BOOLEAN, getItem \in StorageAnswers :
          HintToolChanged(tool, touch, getItem)
          /\ UNCHANGED <<zc, sp, cp, rs, mg, px, pn, dz, gt>>
    \/ \E setItem \in StorageAnswers :
          HintTimerFired(setItem) /\ UNCHANGED <<zc, sp, cp, rs, mg, px, pn, dz, gt>>

SpecHint == Init /\ [][NextHint]_vars

\* One GestureTracker under a pointer handler.
NextTracker ==
    \/ \E e \in PointerEvents :
          GtTrack(e) /\ UNCHANGED <<zc, sp, cp, rs, mg, px, pn, dz, gh>>
    \/ \E e \in PointerEvents :
          GtUntrack(e) /\ UNCHANGED <<zc, sp, cp, rs, mg, px, pn, dz, gh>>
    \/ GtReset /\ UNCHANGED <<zc, sp, cp, rs, mg, px, pn, dz, gh>>

SpecTracker == Init /\ [][NextTracker]_vars

\* ------------------------------------------------------------------ claims
\* What the archive holds for page p: `page{p}.png` with that page's PNG.
PageEntry(p) ==
    [name |-> <<"p", "a", "g", "e">> \o NumberToString(p) \o <<".", "p", "n", "g">>,
     data |-> [png |-> p]]

\* Every page of the call was requested and answered, and none gave a canvas.
AllPagesFailed(r) ==
    /\ r.pc \notin {"idle", "import", "canvas"}
    /\ Len(r.requested) = r.totalPages
    /\ r.rendered = {}

\* C1: when getMergedCanvasForPage gives no canvas for every page
\* 1..totalPages, exportAllPagesAsPngZip throws the empty-archive error and
\* PDFExporter.exportFile is never invoked (nor is it invoked at any earlier
\* point of a call in which no page has rendered).
C1_AllPagesFailedThrowsEmptyArchive ==
    \A c \in CallIds :
        LET r == zc[c]
        IN /\ r.rendered = {} => r.sinkLog = <<>>
           /\ AllPagesFailed(r) =>
                /\ r.pc = "threw"
                /\ r.error = "EmptyArchive"
                /\ r.sinkLog = <<>>
                /\ r.sinkAnswers = <<>>

C1_Witness ==
    \E c \in CallIds :
        /\ AllPagesFailed(zc[c])
        /\ zc[c].totalPages = 3
        /\ zc[c].requested = <<1, 2, 3>>
        /\ zc[c].pc = "threw"

\* C2: the archive handed to the file sink holds exactly the entry
\* page{N}.png, with page N's PNG, for every page N of 1..totalPages whose
\* canvas was returned, one entry per such page and none for another page;
\* when every page rendered these are the totalPages entries
\* page1.png .. page{totalPages}.png.
C2_ArchiveHoldsExactlyRenderedPages ==
    \A c \in CallIds :
        LET r == zc[c]
        IN \A i \in 1..Len(r.sinkLog) :
              LET archive == r.sinkLog[i].data
              IN /\ r.rendered \subseteq 1..r.totalPages
                 /\ archive = {PageEntry(p) : p \in r.rendered}
                 /\ Cardinality({e.name : e \in archive}) = Cardinality(r.rendered)
                 /\ Cardinality(archive) = Cardinality(r.rendered)
                 /\ r.rendered = 1..r.totalPages =>
                        /\ Cardinality(archive) = r.totalPages
                        /\ archive = {PageEntry(p) : p \in 1..r.totalPages}

C2_Witness ==
    \E c \in CallIds :
        /\ zc[c].totalPages = 5
        /\ zc[c].rendered = {1, 3, 5}
        /\ Len(zc[c].sinkLog) = 1
        /\ Cardinality(zc[c].sinkLog[1].data) = 3

\* C3: with a progress callback, the callback has fired once for every loop
\* iteration gone through, skipped pages included: page - 1 times when page's
\* canvas is awaited, totalPages times when the loop is over.
C3_ProgressFiresForEveryIteration ==
    \A c \in CallIds :
        LET r == zc[c]
        IN r.hasProgress =>
              /\ r.pc = "canvas" => Len(r.progress) = r.page - 1
              /\ r.pc = "generate" => Len(r.progress) = r.totalPages

\* C4: with a progress callback, the values reported in one call never
\* decrease; the last one is 100 exactly when the file sink answered true; and
\* when the file sink answered false the call returns false and the last value
\* reported is 95.
C4_ProgressMonotoneAndEndsWithSink ==
    \A c \in CallIds :
        LET r == zc[c]
            n == Len(r.progress)
        IN r.hasProgress =>
              /\ \A i, j \in 1..n : i <= j => r.progress[i] <= r.progress[j]
              /\ (n > 0 /\ r.progress[n] = 100) <=> (r.sinkAnswers = <<TRUE>>)
              /\ r.sinkAnswers = <<TRUE>> => r.pc = "returned" /\ r.result = TRUE
              /\ r.sinkAnswers = <<FALSE>> =>
                    /\ r.pc = "returned"
                    /\ r.result = FALSE
                    /\ n > 0
                    /\ r.progress[n] = 95

C4_Witness ==
    \E c \in CallIds :
        /\ zc[c].hasProgress
        /\ zc[c].totalPages = 3
        /\ zc[c].sinkAnswers = <<FALSE>>
        /\ zc[c].progress = <<27, 80, 95>>

\* The tiers of a compressPdfBytes call, in the order the fallback names them.
TierRank(t) == CASE t = "native" -> 1 [] t = "library" -> 2 [] OTHER -> 3

\* The origin of the bytes a tier gives back.
TierOutput(t) ==
    CASE t = "native" -> "native" [] t = "library" -> "library" [] OTHER -> "input"

\* The tiers that do compress (passthrough only hands the input back).
AttemptedTiers(r) == {r.tiers[i] : i \in 1..Len(r.tiers)} \ {"passthrough"}

\* C5: compressPdfBytes never throws: whatever the host availability and the
\* outcomes of the native and library tiers, a finished call has returned a
\* byte buffer, and when every tier it attempted failed that buffer is the
\* input, unchanged.
C5_CompressNeverThrows ==
    /\ cp.pc # "threw"
    /\ cp.pc = "returned" =>
         /\ cp.result.origin \in {"input", "native", "library"}
         /\ AttemptedTiers(cp) \subseteq cp.failed => cp.result = cp.pdfBytes

C5_Witness ==
    /\ cp.pc = "returned"
    /\ cp.isTauri
    /\ cp.failed = {"native", "library"}
    /\ cp.result = cp.pdfBytes

\* C6: the tiers run in the order native, library, passthrough, each at most
\* once; native is tried first exactly when the host is there; library runs
\* only when native is absent or failed; passthrough only when library failed;
\* and a tier that succeeds ends the call with its own output.
C6_TiersInStrictFallbackOrder ==
    LET n == Len(cp.tiers)
        ran == {cp.tiers[i] : i \in 1..n}
    IN /\ \A i, j \in 1..n : i < j => TierRank(cp.tiers[i]) < TierRank(cp.tiers[j])
       /\ cp.pc # "idle" => ("native" \in ran <=> cp.isTauri)
       /\ "library" \in ran => (~cp.isTauri \/ "native" \in cp.failed)
       /\ "passthrough" \in ran => "library" \in (ran \cap cp.failed)
       /\ cp.pc = "returned" =>
            /\ n > 0
            /\ cp.result.origin = TierOutput(cp.tiers[n])
            /\ cp.tiers[n] # "passthrough" => cp.tiers[n] \notin cp.failed
       /\ \A t \in ran \ cp.failed :
            t # "passthrough" /\ cp.pc = "returned" => cp.tiers[n] = t

C6_Witness ==
    /\ cp.pc = "returned"
    /\ cp.tiers = <<"native", "library", "passthrough">>
    /\ cp.result = cp.pdfBytes

PageEnded == sp.pc \in {"returned", "threw"}

\* The canvas request of the call was answered with a canvas.
PageCanvasReturned == sp.currentPage \in sp.rendered

\* C8, as claimed: without a canvas the call throws the page-render error and
\* the file sink is not invoked; otherwise (a canvas was returned) the file
\* sink is invoked exactly once and the call returns the sink's boolean.
C8_SinkOnceWheneverCanvasReturned ==
    PageEnded =>
        IF PageCanvasReturned
        THEN /\ sp.pc = "returned"
             /\ Len(sp.sinkLog) = 1
             /\ Len(sp.sinkAnswers) = 1
             /\ sp.result = sp.sinkAnswers[1]
        ELSE /\ sp.pc = "threw"
             /\ sp.error = "PageRenderFailed"
             /\ sp.sinkLog = <<>>

\* C8, amended: without a canvas the call throws the page-render error, and
\* with a canvas that toBlob refuses to encode it throws the encode error, in
\* both cases without invoking the file sink; with a canvas that encodes, the
\* file sink is invoked exactly once, with the PNG under
\* {baseName}_page{N}.png, and the call returns the sink's boolean.
C8_SinkOnceWhenCanvasEncodes ==
    /\ Len(sp.sinkLog) <= 1
    /\ sp.pc \in {"canvas", "toBlob"} => sp.sinkLog = <<>>
    /\ PageEnded =>
         IF ~PageCanvasReturned
         THEN /\ sp.pc = "threw"
              /\ sp.error = "PageRenderFailed"
              /\ sp.sinkLog = <<>>
         ELSE IF sp.blob = NullBlob
         THEN /\ sp.pc = "threw"
              /\ sp.error = "CanvasEncodeFailed"
              /\ sp.sinkLog = <<>>
         ELSE /\ sp.pc = "returned"
              /\ Len(sp.sinkLog) = 1
              /\ sp.sinkLog[1].data = [png |-> sp.currentPage]
              /\ sp.sinkLog[1].mime = "image/png"
              /\ Len(sp.sinkAnswers) = 1
              /\ sp.result = sp.sinkAnswers[1]

C8_Witness ==
    /\ sp.pc = "returned"
    /\ sp.currentPage = 3
    /\ sp.sinkAnswers = <<FALSE>>
    /\ sp.result = FALSE
    /\ Len(sp.sinkLog) = 1

\* /\.pdf$/i matches the end of the name.
EndsInPdf(name) ==
    /\ Len(name) >= 4
    /\ name[Len(name) - 3] = "."
    /\ name[Len(name) - 2] \in {"p", "P"}
    /\ name[Len(name) - 1] \in {"d", "D"}
    /\ name[Len(name)] \in {"f", "F"}

\* The name getPdfBytesAndName derives the base name from: the File's name, or
\* what the extractor returned for the URL.
ResolvedFrom ==
    IF rs.currentFile.kind = "file" THEN rs.currentFile.name ELSE rs.extracted

\* C9, as claimed: the base name returned never ends in '.pdf', in any letter
\* case.
C9_BaseNameNeverEndsInPdf ==
    rs.pc = "returned" => ~EndsInPdf(rs.originalName)

\* C9, amended: the base name returned is the File's name (or the filename the
\* extractor gave for the URL) without its one trailing '.pdf' suffix, matched
\* in any letter case, and unchanged when it has none; so it ends in '.pdf'
\* only when that name ended in two '.pdf' suffixes in a row.
C9_BaseNameLosesOnePdfSuffix ==
    rs.pc = "returned" =>
        LET name == ResolvedFrom
            base == rs.originalName
        IN /\ EndsInPdf(name) => base = SubSeq(name, 1, Len(name) - 4)
           /\ ~EndsInPdf(name) => base = name
           /\ EndsInPdf(base) <=>
                (EndsInPdf(name) /\ EndsInPdf(SubSeq(name, 1, Len(name) - 4)))

C9_Witness ==
    /\ rs.pc = "returned"
    /\ rs.currentFile.kind = "url"
    /\ ~rs.customExtractor
    /\ rs.extracted = <<"r", ".", "p", "d", "f", ".", "P", "D", "F">>
    /\ rs.originalName = <<"r", ".", "p", "d", "f">>

\* C10: buildAnnotatedPdfExporter never throws, and the exporter maps page p
\* to a canvas exactly when p is a page of 1..totalPages already gone through
\* that needed capture (it has annotations, or captureAllPages is set) and
\* for which getMergedCanvasForPage returned a canvas; the canvas is that
\* page's, there is one per key and no key lies outside 1..totalPages.
C10_ExporterMapsExactlyCapturedPages ==
    LET keys == {e.page : e \in mg.exporter.pageCanvases}
        captured == {p \in 1..mg.totalPages :
                        /\ p \in mg.annotated \/ mg.captureAllPages
                        /\ p \in mg.rendered}
    IN /\ mg.pc # "threw"
       /\ keys \subseteq 1..mg.totalPages
       /\ keys = captured
       /\ Cardinality(mg.exporter.pageCanvases) = Cardinality(keys)
       /\ \A e \in mg.exporter.pageCanvases : e.canvas = [page |-> e.page]
       /\ mg.pc = "returned" =>
            /\ mg.asked = 1..mg.totalPages
            /\ mg.requested =
                 {p \in 1..mg.totalPages : p \in mg.annotated \/ mg.captureAllPages}

C10_Witness ==
    /\ mg.pc = "returned"
    /\ mg.totalPages = 4
    /\ ~mg.captureAllPages
    /\ mg.annotated = {1, 2, 4}
    /\ mg.rendered = {1, 4}
    /\ {e.page : e \in mg.exporter.pageCanvases} = {1, 4}

\* C11: within one exportAllPagesAsPngZip call the pages go one after the
\* other: pages are requested in the order 1, 2, ..; a page is requested only
\* when every page before it has been handled (added or skipped); at most one
\* page is requested and not yet handled, and it is the one being rendered,
\* encoded or read; and the loop's progress callbacks come in strictly
\* increasing page order, each for a page already handled.
C11_PagesStrictlySequential ==
    \A c \in CallIds :
        LET r == zc[c]
            outstanding == Len(r.requested) - Len(r.handled)
        IN /\ \A i \in 1..Len(r.requested) : r.requested[i] = i
           /\ \A i \in 1..Len(r.handled) : r.handled[i] = i
           /\ outstanding \in {0, 1}
           /\ r.pc \in {"canvas", "toBlob", "arrayBuffer"} =>
                 outstanding = 1 /\ r.requested[Len(r.requested)] = r.page
           /\ r.pc \in {"generate", "sink", "returned"} => outstanding = 0
           /\ \A i, j \in 1..Len(r.reportedPages) :
                 i < j => r.reportedPages[i] < r.reportedPages[j]
           /\ \A i \in 1..Len(r.reportedPages) :
                 r.reportedPages[i] <= Len(r.handled)

C11_Witness ==
    \E c \in CallIds :
        /\ zc[c].pc = "toBlob"
        /\ zc[c].page = 3
        /\ zc[c].requested = <<1, 2, 3>>
        /\ zc[c].handled = <<1, 2>>
        /\ zc[c].reportedPages = <<1, 2>>

\* C12: a page whose canvas was returned but whose PNG encoding failed ends
\* the exportAllPagesAsPngZip call with the encode error: the failing page is
\* the last one requested, no progress is reported for it or after it (95 and
\* 100 included), the archive is never generated and the file sink is never
\* invoked, whatever was added to the archive before.
C12_EncodeFailureIsFatal ==
    \A c \in CallIds :
        LET r == zc[c]
        IN \A p \in r.encodeFailed :
              /\ r.pc = "threw"
              /\ r.error = "CanvasEncodeFailed"
              /\ r.encodeFailed = {p}
              /\ r.requested[Len(r.requested)] = p
              /\ \A i \in 1..Len(r.reportedPages) : r.reportedPages[i] < p
              /\ Len(r.progress) = Len(r.reportedPages)
              /\ ~r.generated
              /\ r.sinkLog = <<>>
              /\ r.sinkAnswers = <<>>

C12_Witness ==
    \E c \in CallIds :
        /\ zc[c].encodeFailed = {3}
        /\ zc[c].pc = "threw"
        /\ zc[c].filesAdded = 2
        /\ zc[c].progress # <<>>
        /\ zc[c].totalPages > 3

\* C13: when getPdfBytesAndName is given a URL and the fetch answers with a
\* non-success response, the call fails with the fetch error, the response
\* body is never read, no extractor is called, and neither bytes nor a base
\* name come back; when it is given an in-memory file, nothing is fetched.
C13_FailedFetchReadsNothing ==
    /\ rs.response = "notOk" =>
          /\ rs.currentFile.kind = "url"
          /\ rs.pc = "threw"
          /\ rs.error = "FetchFailed"
          /\ rs.bodyReads = 0
          /\ rs.extractorCalls = 0
          /\ ~rs.hasBytes
          /\ rs.originalName = <<>>
    /\ rs.currentFile.kind = "file" => rs.fetches = 0 /\ rs.response = "none"

C13_Witness ==
    /\ rs.currentFile.kind = "url"
    /\ rs.fetches = 1
    /\ rs.response = "notOk"
    /\ rs.pc = "threw"

DOCUMENT == <<"d", "o", "c", "u", "m", "e", "n", "t">>

ResolvedByDefault ==
    /\ rs.pc = "returned"
    /\ rs.currentFile.kind = "url"
    /\ ~rs.customExtractor

\* C14: with the default extractor, the base name of a URL is its last path
\* segment, less one trailing '.pdf' in any letter case when the segment has
\* one (/y/r.PDF gives 'r'); it is 'document' when the path ends in '/' (no
\* last segment) or the URL does not parse.
C14_DefaultBaseNameFromLastSegment ==
    ResolvedByDefault =>
        /\ ~rs.currentFile.parseable => rs.originalName = DOCUMENT
        /\ rs.currentFile.parseable =>
              \A d \in Directories, n \in FileNames :
                  rs.currentFile.pathname = d \o n =>
                      /\ n = <<>> => rs.originalName = DOCUMENT
                      /\ n # <<>> /\ ~EndsInPdf(n) => rs.originalName = n
                      /\ n # <<>> /\ EndsInPdf(n) =>
                            /\ Len(rs.originalName) = Len(n) - 4
                            /\ rs.originalName = SubSeq(n, 1, Len(n) - 4)

C14_Witness ==
    /\ ResolvedByDefault
    /\ rs.currentFile.pathname = <<"/", "y", "/", "r", ".", "P", "D", "F">>
    /\ rs.originalName = <<"r">>

\* What one call reports from inside the loop when the pages in `pages` are
\* the ones added to its archive.
RECURSIVE LoopReports(_, _, _)
LoopReports(pages, page, totalPages) ==
    IF page > totalPages THEN <<>>
    ELSE (IF page \in pages THEN <<(160 * page + totalPages) \div (2 * totalPages)>>
          ELSE <<>>)
         \o LoopReports(pages, page + 1, totalPages)

\* The outcome of a call that ran alone, from the answers it was given.
AloneProgress(r) ==
    IF ~r.hasProgress THEN <<>>
    ELSE LoopReports({p \in 1..r.totalPages : PageEntry(p) \in r.zip}, 1, r.totalPages)
         \o (IF r.generated THEN <<95>> ELSE <<>>)
         \o (IF r.sinkAnswers = <<TRUE>> THEN <<100>> ELSE <<>>)

\* C15: two interleaved exportAllPagesAsPngZip calls do not touch each other:
\* the archive of each holds entries only for pages that call itself got a
\* canvas for, and its count of added pages, its progress sequence, its sink
\* request and its result are what its own renderer and sink answers give.
C15_ConcurrentCallsDoNotInterfere ==
    \A c \in CallIds :
        LET r == zc[c]
        IN /\ r.zip \subseteq {PageEntry(p) : p \in r.rendered \ r.encodeFailed}
           /\ r.filesAdded = Cardinality(r.zip)
           /\ r.progress = AloneProgress(r)
           /\ r.pc \in {"generate", "sink", "returned"} =>
                 r.zip = {PageEntry(p) : p \in r.rendered}
           /\ r.pc \in {"sink", "returned"} =>
                 r.sinkLog = <<[data |-> r.zip,
                                filename |-> r.baseName \o <<"_", "p", "a", "g", "e", "s", ".", "z", "i", "p">>,
                                mime |-> "application/zip"]>>
           /\ r.pc = "returned" => r.sinkAnswers = <<r.result>>
           /\ r.pc = "threw" =>
                 r.error = IF r.encodeFailed # {} THEN "CanvasEncodeFailed"
                           ELSE "EmptyArchive"

C15_Witness ==
    /\ zc[1].pc = "returned"
    /\ zc[2].pc = "arrayBuffer"
    /\ zc[1].rendered = {2}
    /\ zc[2].rendered = {1}
    /\ zc[2].page = 1
    /\ zc[1].totalPages = 2
    /\ zc[1].baseName # zc[2].baseName

\* C16: the i-th value reported from inside the page loop is the integer
\* nearest to page * 80 / totalPages (halves up) for the i-th reported page,
\* lies in 0..80, and is 80 when that page is the last one; every later value
\* of the sequence is 95 or 100, and no other value exceeds 80.
C16_LoopProgressIsScaledTo80 ==
    \A c \in CallIds :
        LET r == zc[c]
            loopReports == Len(r.reportedPages)
        IN /\ loopReports <= Len(r.progress)
           /\ \A i \in 1..loopReports :
                 LET v == r.progress[i]
                     page == r.reportedPages[i]
                 IN /\ v \in 0..80
                    /\ 2 * r.totalPages * v <= 160 * page + r.totalPages
                    /\ 160 * page + r.totalPages < 2 * r.totalPages * (v + 1)
                    /\ page = r.totalPages => v = 80
           /\ \A i \in 1..Len(r.progress) :
                 r.progress[i] > 80 => i > loopReports /\ r.progress[i] \in {95, 100}
           /\ \A i \in (loopReports + 1)..Len(r.progress) : r.progress[i] > 80

C16_Witness ==
    \E c \in CallIds :
        /\ zc[c].totalPages = 3
        /\ zc[c].reportedPages = <<1, 2, 3>>
        /\ zc[c].progress = <<27, 53, 80, 95, 100>>

Reported(r, percent) == \E i \in 1..Len(r.progress) : r.progress[i] = percent

\* C17: a call of exportAllPagesAsPngZip invokes the file sink at most once,
\* and only when every page of 1..totalPages has been handled, the archive has
\* been generated and (for a call given a progress callback) 95 has been
\* reported; 100 is reported only when the sink has answered, and answered true.
C17_SinkOnceAfterAssemblyAnd95 ==
    \A c \in CallIds :
        LET r == zc[c]
        IN /\ Len(r.sinkLog) <= 1
           /\ r.sinkLog # <<>> =>
                 /\ r.page = r.totalPages + 1
                 /\ r.handled = [i \in 1..r.totalPages |-> i]
                 /\ r.generated
                 /\ r.hasProgress => Reported(r, 95)
           /\ Reported(r, 100) =>
                 /\ r.sinkLog # <<>>
                 /\ r.sinkAnswers = <<TRUE>>
                 /\ r.progress[Len(r.progress)] = 100
                 /\ r.progress[Len(r.progress) - 1] = 95

C17_Witness ==
    \E c \in CallIds :
        /\ zc[c].pc = "sink"
        /\ zc[c].totalPages = 4
        /\ zc[c].hasProgress
        /\ Len(zc[c].sinkLog) = 1
        /\ Reported(zc[c], 95)
        /\ ~Reported(zc[c], 100)

C19_StartReplaysSampledVelocity ==
    (pn.started /\ pn.ended /\ pn.armed) => pn.frames >= 1

\* The file of the run passes a validator that the accept prop enables.
TypeAccepted(d) ==
    \/ acceptsImages(d.accept) /\ d.file.image
    \/ acceptsMarkdown(d.accept) /\ d.file.markdown
    \/ acceptsPDF(d.accept) /\ d.file.pdf

\* C20: a run of handleFileUpload calls storeUploadedFile at most once, and
\* only with a file whose type passed a validator enabled by accept, whose
\* size was within MAX_FILE_SIZE and, when it was converted, whose converted
\* size is within MAX_FILE_SIZE too; a file refused for its type or its size
\* starts no conversion, and a file refused at any of the three tests is not
\* converted again, not stored and navigated nowhere.
C20_OnlyAcceptedFilesWithinLimitAreStored ==
    /\ Len(dz.stores) <= 1
    /\ dz.stores # <<>> =>
          /\ TypeAccepted(dz)
          /\ dz.file.size <= MAX_FILE_SIZE
          /\ \A i \in 1..Len(dz.convertedSizes) : dz.convertedSizes[i] <= MAX_FILE_SIZE
          /\ dz.stores[1] <= MAX_FILE_SIZE
          /\ dz.convertedSizes # <<>> => dz.stores = dz.convertedSizes
    /\ (dz.file # NoFile /\ (~TypeAccepted(dz) \/ dz.file.size > MAX_FILE_SIZE)) =>
          /\ dz.conversions = <<>>
          /\ dz.stores = <<>>
          /\ dz.gotos = 0
          /\ dz.pc = "idle"
    /\ (\E i \in 1..Len(dz.convertedSizes) : dz.convertedSizes[i] > MAX_FILE_SIZE) =>
          /\ Len(dz.convertedSizes) = 1
          /\ dz.stores = <<>>
          /\ dz.gotos = 0
          /\ dz.pc = "idle"
    /\ dz.gotos > 0 => dz.stores # <<>>

C20_Witness ==
    /\ dz.pc = "goto"
    /\ dz.isMarkdown
    /\ dz.file.size = MAX_FILE_SIZE
    /\ dz.convertedSizes = <<1>>
    /\ dz.stores = <<1>>

\* C21: the gesture hint is shown once: visible goes from false to true at
\* most one time, and once a dismiss timer has fired visible is false for good.
C21_HintShownAtMostOnce ==
    /\ gh.shows <= 1
    /\ gh.dismissed => ~gh.visible

\* C22: after any track, untrack and reset calls, count is the number of
\* distinct pointer ids tracked and not untracked or reset since (and those
\* are the ids the tracker holds, each once); getFirstPointer is null exactly
\* when count is 0; with count below 2 getPinchDistance is 0 and
\* getPinchMidpoint is (0, 0).
C22_CountIsLivePointers ==
    /\ count(gt) = Cardinality(gt.live)
    /\ {gt.activePointers[i].pointerId : i \in 1..Len(gt.activePointers)} = gt.live
    /\ getFirstPointer(gt) = <<>> <=> count(gt) = 0
    /\ count(gt) < 2 =>
          /\ getPinchDistance(gt) = 0
          /\ getPinchMidpoint(gt) = [x |-> 0, y |-> 0]

C22_Witness ==
    /\ gt.retracked
    /\ gt.live = {1, 3}
    /\ count(gt) = 2
    /\ getPinchDistance(gt) = 10
    /\ getPinchMidpoint(gt) = [x |-> 3, y |-> 4]

\* C23: isProcessing is true exactly while a handleFileUpload run is waiting
\* at one of its awaits: once the run has set it, every way out of the run
\* (converted file too large, storage failure reported, navigation done or
\* failed, conversion or storage failed) leaves it false, so a finished run
\* never leaves the dropzone locked.
C23_IsProcessingResetOnEveryExit ==
    /\ dz.pc = "idle" => ~dz.isProcessing
    /\ dz.pc # "idle" => dz.isProcessing

C23_Witness ==
    /\ dz.pc = "idle"
    /\ ~dz.isProcessing
    /\ dz.gotos = 1
    /\ dz.toasts = <<"Converting...", "Upload Error">>

\* A multi-page export of the component has completed successfully, and the
\* progress card has not written isExporting during a run.
MultiPageExportSucceeded ==
    /\ RunsInFlight = {}
    /\ ~px.closedInFlight
    /\ px.exportStatus = "success"
    /\ px.exportMessage = Message("${baseName}_pages.zip", 0)

\* C24: over a multi-page export that completes successfully, the values
\* exportProgress is given, from its initial one on, never decrease.
C24_ExportProgressNeverDecreases ==
    MultiPageExportSucceeded => ~px.decreased

====
